---- MODULE Spec2Model ----
(***************************************************************************)
(* Model of the Lucid native chunk pipeline:                               *)
(*   apps/chunker   (chunker.c, compression.c)   zlib compression          *)
(*   apps/encryptor (encryptor.c, crypto.c)      libsodium secretbox/sign  *)
(*                                                                         *)
(* Byte strings are modelled by shape, not byte by byte:                   *)
(*   [kind |-> "run", n |-> k]   k copies of the byte 'a'                  *)
(*   [kind |-> "seq", n |-> k]   the k ascending bytes 'a','b','c',...     *)
(*   [kind |-> "zlib", src, level, len]  the first len bytes of the zlib   *)
(*                               stream deflate produces for src at level  *)
(* The sizes of deflate's output are those of zlib (RFC 1950/1951, fixed   *)
(* Huffman block, stored block at level 0).                                *)
(***************************************************************************)
EXTENDS Integers, Sequences, FiniteSets, TLC

(***************************************************************************)
(* Bounds of the model                                                     *)
(***************************************************************************)
MaxLen == 8
\* deflate states of one Chunker allocated and not yet freed
MaxLive == 2
MaxPlain == 1
NumKeys == 2
NumNonces == 1
NumKeyPairs == 2

(***************************************************************************)
(* Program constants                                                       *)
(***************************************************************************)
MAX_CHUNK_SIZE == 100 * 1024 * 1024
DEFAULT_CHUNK_SIZE == 8 * 1024 * 1024
DEFAULT_COMPRESSION_LEVEL == 6

Z_OK == 0
Z_STREAM_END == 1
Z_STREAM_ERROR == 0 - 2
Z_DATA_ERROR == 0 - 3
Z_MEM_ERROR == 0 - 4
Z_BUF_ERROR == 0 - 5
Z_DEFAULT_COMPRESSION == 0 - 1

(***************************************************************************)
(* Byte strings                                                            *)
(***************************************************************************)
Run(n) == [kind |-> "run", n |-> n]
AscSeq(n) == [kind |-> "seq", n |-> n]
NoBytes == [kind |-> "none", n |-> 0]

SmallPayloads ==
  {Run(n) : n \in 0..MaxLen} \cup {AscSeq(n) : n \in (MaxLen - 1)..MaxLen}

BigPayloads == {Run(MAX_CHUNK_SIZE), Run(MAX_CHUNK_SIZE + 1)}

Payloads == SmallPayloads \cup BigPayloads

ZStream(src, level, len) ==
  [kind |-> "zlib", src |-> src, level |-> level, len |-> len]

BytesLen(b) == IF b.kind \in {"zlib", "envelope", "signed"} THEN b.len ELSE b.n

(***************************************************************************)
(* zlib: sizes of the deflate stream                                       *)
(***************************************************************************)
\* bits of the fixed-Huffman length code (code + extra bits) of a match
LenCodeBits(len) ==
  IF len <= 10 THEN 7
  ELSE IF len <= 18 THEN 8
  ELSE IF len <= 34 THEN 9
  ELSE IF len <= 66 THEN 10
  ELSE IF len <= 114 THEN 11
  ELSE IF len <= 130 THEN 12
  ELSE IF len <= 257 THEN 13
  ELSE 8

\* the level deflateInit works with: Z_DEFAULT_COMPRESSION means 6
EffectiveLevel(level) ==
  IF level = Z_DEFAULT_COMPRESSION THEN DEFAULT_COMPRESSION_LEVEL ELSE level

\* number of stored blocks of at most 65535 bytes (at least one)
StoredBlocks(n) == IF n = 0 THEN 1 ELSE (n + 65534) \div 65535

\* bytes of the deflate body (between the 2-byte header and the Adler-32)
DeflateBodyLen(p, level) ==
  IF level = 0 THEN p.n + 5 * StoredBlocks(p.n)
  ELSE IF p.kind = "seq" \/ p.n <= 4
       THEN (3 + 8 * p.n + 7 + 7) \div 8
  ELSE IF p.n <= 260
       THEN (3 + 16 + LenCodeBits(p.n - 2) + 5 + 7 + 7) \div 8
  ELSE 101924

\* bytes of the complete zlib stream of payload p
DeflateLen(p, level) == 2 + DeflateBodyLen(p, level) + 4

\* payload bytes a decoder can produce from the first len bytes of a stream
DecodableLen(s) ==
  LET body == IF s.len > 2 THEN s.len - 2 ELSE 0
      p == s.src
      lits == IF body = 0 THEN 0 ELSE (8 * body - 3) \div 8
      Min(a, b) == IF a < b THEN a ELSE b
  IN  IF s.len >= DeflateLen(p, s.level) - 4 THEN p.n
      ELSE IF s.level = 0 THEN (IF body > 5 THEN Min(p.n, body - 5) ELSE 0)
      ELSE IF p.kind = "seq" \/ p.n <= 4 THEN Min(p.n, lits)
      ELSE IF 8 * body >= 3 + 16 + LenCodeBits(p.n - 2) + 5 THEN p.n
      ELSE Min(2, lits)

(***************************************************************************)
(* zlib: deflateInit / deflate / inflateInit / inflate as compression.c    *)
(* calls them (one call with Z_FINISH on a fresh stream)                   *)
(***************************************************************************)
\* mem_ok: whether zlib's internal allocation succeeds
deflateInit(level, mem_ok) ==
  IF level < Z_DEFAULT_COMPRESSION \/ level > 9 THEN Z_STREAM_ERROR
  ELSE IF ~mem_ok THEN Z_MEM_ERROR
  ELSE Z_OK

inflateInit(mem_ok) == IF mem_ok THEN Z_OK ELSE Z_MEM_ERROR

\* deflate(&stream, Z_FINISH) with avail_out bytes of output space
deflate(input, avail_out, level) ==
  LET full == DeflateLen(input, EffectiveLevel(level))
  IN  IF avail_out = 0
      THEN [rc |-> Z_BUF_ERROR, total_out |-> 0, out |-> NoBytes]
      ELSE IF avail_out >= full
      THEN [rc |-> Z_STREAM_END, total_out |-> full,
            out |-> ZStream(input, EffectiveLevel(level), full)]
      ELSE [rc |-> Z_OK, total_out |-> avail_out,
            out |-> ZStream(input, EffectiveLevel(level), avail_out)]

\* payload bytes inflate writes from stream input into avail_out bytes
Produced(input, avail_out) ==
  IF DecodableLen(input) < avail_out THEN DecodableLen(input) ELSE avail_out

\* inflate returns before the end of the deflate body (input used up or
\* output full) after writing output: it then allocates its 32 KiB window
\* to keep the bytes written so far
NeedsWindow(input, avail_out) ==
  /\ Produced(input, avail_out) > 0
  /\ \/ input.len < DeflateLen(input.src, input.level) - 4
     \/ avail_out < input.src.n

\* inflate(&stream, Z_FINISH) with avail_out bytes of output space;
\* window_ok: whether the allocation of the window succeeds, when made
\* (on Z_MEM_ERROR inflate returns before it adds to total_out)
inflate(input, avail_out, window_ok) ==
  IF input.kind # "zlib"
  THEN [rc |-> IF input.n < 2 THEN Z_BUF_ERROR ELSE Z_DATA_ERROR,
        total_out |-> 0, out |-> NoBytes]
  ELSE IF input.len = DeflateLen(input.src, input.level)
          /\ avail_out >= input.src.n
  THEN [rc |-> Z_STREAM_END, total_out |-> input.src.n, out |-> input.src]
  ELSE IF NeedsWindow(input, avail_out) /\ ~window_ok
  THEN [rc |-> Z_MEM_ERROR, total_out |-> 0, out |-> NoBytes]
  ELSE [rc |-> Z_BUF_ERROR, total_out |-> Produced(input, avail_out),
        out |-> NoBytes]

(***************************************************************************)
(* compression.c                                                           *)
(***************************************************************************)
\* initialized: deflateInit returned Z_OK on the call's own z_stream;
\* ended: deflateEnd was called on it before the return

\* a compress_data that returns deflate's error without calling deflateEnd
compress_data_EarlyReturn(input, output_size, compression_level, mem_ok) ==
  LET result == deflateInit(compression_level, mem_ok)
      d == deflate(input, output_size, compression_level)
  IN  IF result # Z_OK
      THEN [rc |-> result, output_size |-> output_size, output |-> NoBytes,
            initialized |-> FALSE, ended |-> FALSE]
      ELSE [rc |-> IF d.rc = Z_STREAM_END THEN Z_OK ELSE d.rc,
            output_size |-> d.total_out, output |-> d.out,
            initialized |-> TRUE, ended |-> d.rc \in {Z_STREAM_END, Z_OK}]

compress_data(input, output_size, compression_level, mem_ok) ==
  LET result == deflateInit(compression_level, mem_ok)
      d == deflate(input, output_size, compression_level)
  IN  IF result # Z_OK
      THEN [rc |-> result, output_size |-> output_size, output |-> NoBytes,
            initialized |-> FALSE, ended |-> FALSE]
      ELSE [rc |-> IF d.rc = Z_STREAM_END THEN Z_OK ELSE d.rc,
            output_size |-> d.total_out, output |-> d.out,
            initialized |-> TRUE, ended |-> TRUE]

\* mem_ok: the allocation of inflateInit succeeds; window_ok: that of inflate
decompress_data(input, output_size, mem_ok, window_ok) ==
  LET result == inflateInit(mem_ok)
      d == inflate(input, output_size, window_ok)
  IN  IF result # Z_OK
      THEN [rc |-> result, output_size |-> output_size, output |-> NoBytes,
            initialized |-> FALSE, ended |-> FALSE]
      ELSE [rc |-> IF d.rc = Z_STREAM_END THEN Z_OK ELSE d.rc,
            output_size |-> d.total_out, output |-> d.out,
            initialized |-> TRUE, ended |-> TRUE]

(***************************************************************************)
(* Python integers passed for chunk_size ("k": unsigned long, converted    *)
(* without overflow checking, i.e. modulo 2^64).  [q, r] stands for        *)
(* q * 2^64 + r with |r| < 2^31.                                           *)
(***************************************************************************)
PyInt(q, r) == [q |-> q, r |-> r]

\* PyLong_AsUnsignedLongMask: the value modulo 2^64, as [0, r] for r >= 0
\* and [1, r] (2^64 + r) for r < 0
AsUnsignedLongMask(v) ==
  IF v.r >= 0 THEN PyInt(0, v.r) ELSE PyInt(1, v.r)

\* comparisons of a size_t with an int constant below 2^31
ULongIsZero(u) == u.q = 0 /\ u.r = 0
ULongGreater(u, c) == u.q = 1 \/ u.r > c

\* the mathematical value of a Python integer lies in 1..c (c < 2^31)
PyIntInRange(v, c) == v.q = 0 /\ v.r >= 1 /\ v.r <= c

(***************************************************************************)
(* chunker.c: the Chunker object                                           *)
(***************************************************************************)
\* zstream_state: self->zstream.state, "null" or "live" (a deflate state
\* that deflateInit built); live_states: the deflate states built for this
\* object and not freed, the one zstream.state points to included
VARIABLES chunk_size, compression_level, zstream_initialized, clast,
          zstream_state, live_states

cvars ==
  <<chunk_size, compression_level, zstream_initialized, clast,
    zstream_state, live_states>>

NoArg == [given |-> FALSE, v |-> 0]
NoSizeArg == [given |-> FALSE, v |-> [q |-> 0, r |-> 0]]
Arg(v) == [given |-> TRUE, v |-> v]

EmptyDict ==
  [keys |-> {}, data |-> NoBytes, algorithm |-> "", checksum |-> ""]

\* the record of the last call: its arguments, what it did, what it returned
NoCall ==
  [op |-> "new", data |-> NoBytes, size_arg |-> NoSizeArg, level_arg |-> NoArg,
   level |-> DEFAULT_COMPRESSION_LEVEL, oom |-> "none",
   status |-> "ok", exc |-> "none", ret_null |-> FALSE,
   ret_dict |-> EmptyDict, ret_bytes |-> NoBytes,
   malloc_called |-> FALSE, compress_called |-> FALSE,
   deflateInit_called |-> FALSE, from |-> "none",
   local_init |-> FALSE, local_end |-> FALSE,
   deflateEnd_called |-> FALSE, deflateEnd_rc |-> Z_OK,
   was_initialized |-> 0,
   prev |-> [op |-> "new", deflateEnd_called |-> FALSE]]

Fail(call, exc) ==
  [call EXCEPT !.status = "error", !.exc = exc, !.ret_null = TRUE]

\* Chunker_new
ChunkerInit ==
  /\ chunk_size = PyInt(0, DEFAULT_CHUNK_SIZE)
  /\ compression_level = DEFAULT_COMPRESSION_LEVEL
  /\ zstream_initialized = 0
  /\ zstream_state = "null"
  /\ live_states = 0
  /\ clast = NoCall

\* the fields after PyArg_ParseTupleAndKeywords("|ki") stored the arguments
ParsedSize(size_arg) ==
  IF size_arg.given THEN AsUnsignedLongMask(size_arg.v) ELSE chunk_size
ParsedLevel(level_arg) ==
  IF level_arg.given THEN level_arg.v ELSE compression_level

ChunkSizeValid(cs) == ~(ULongIsZero(cs) \/ ULongGreater(cs, MAX_CHUNK_SIZE))

LevelValid(level) == ~(level < 0 \/ level > 9)

\* which allocation inside deflateInit fails: none, the first (the deflate
\* state itself: zstream.state is not touched) or a later one (zlib has
\* stored the new state in zstream.state, ends it itself and leaves
\* zstream.state NULL; a state stored there before is lost)
ZlibFaults == {"none", "first", "later"}

Chunker_init(size_arg, level_arg, fault) ==
  LET cs == ParsedSize(size_arg)
      lv == ParsedLevel(level_arg)
      call == [NoCall EXCEPT !.op = "init", !.size_arg = size_arg,
                 !.level_arg = level_arg, !.level = lv,
                 !.oom = IF fault = "none" THEN "none"
                         ELSE IF fault = "first" THEN "deflateInit"
                         ELSE "deflateInit_later"]
  IN  /\ chunk_size' = cs
      /\ compression_level' = lv
      /\ IF ~ChunkSizeValid(cs)
         THEN /\ clast' = Fail(call, "ValueError")
              /\ UNCHANGED <<zstream_initialized, zstream_state, live_states>>
         ELSE IF ~LevelValid(lv)
         THEN /\ clast' = Fail(call, "ValueError")
              /\ UNCHANGED <<zstream_initialized, zstream_state, live_states>>
         ELSE IF deflateInit(lv, fault = "none") = Z_OK
         THEN /\ zstream_initialized' = 1
              /\ zstream_state' = "live"
              /\ live_states' = live_states + 1
              /\ clast' = [call EXCEPT !.deflateInit_called = TRUE]
         ELSE /\ UNCHANGED <<zstream_initialized, live_states>>
              /\ zstream_state' = IF fault = "later" THEN "null"
                                  ELSE zstream_state
              /\ clast' = [Fail(call, "RuntimeError")
                             EXCEPT !.deflateInit_called = TRUE]

\* where an allocation made during Chunker_chunk may fail
OomChunk ==
  {"none", "malloc", "deflateInit", "dict", "data_value", "data_insert",
   "algorithm_value", "algorithm_insert", "checksum_value",
   "checksum_insert"}

\* the dictionary the three unchecked PyDict_SetItemString calls leave
\* behind when the insertion named by oom fails
ChunkDict(compressed, oom) ==
  [keys |-> (IF oom = "data_insert" THEN {} ELSE {"data"})
              \cup (IF oom = "algorithm_insert" THEN {} ELSE {"algorithm"})
              \cup (IF oom = "checksum_insert" THEN {} ELSE {"checksum"}),
   data |-> IF oom = "data_insert" THEN NoBytes ELSE compressed,
   algorithm |-> IF oom = "algorithm_insert" THEN "" ELSE "zlib",
   checksum |-> IF oom = "checksum_insert" THEN "" ELSE "sha256_hash_here"]

\* a size check that also rejects a payload of exactly MAX_CHUNK_SIZE bytes
TooLargeOffByOne(data) == BytesLen(data) >= MAX_CHUNK_SIZE

\* the size check of Chunker_chunk
TooLarge(data) == BytesLen(data) > MAX_CHUNK_SIZE

Chunker_chunk(data, oom) ==
  LET call == [NoCall EXCEPT !.op = "chunk", !.data = data,
                 !.level = compression_level, !.oom = oom]
      compressed_size == BytesLen(data) * 2
      c == compress_data(data, compressed_size, compression_level,
                         oom # "deflateInit")
      run == [call EXCEPT !.malloc_called = TRUE, !.compress_called = TRUE,
               !.local_init = c.initialized, !.local_end = c.ended]
  IN  /\ clast' =
           IF TooLarge(data) THEN Fail(call, "ValueError")
           ELSE IF oom = "malloc"
           THEN [Fail(call, "MemoryError") EXCEPT !.malloc_called = TRUE]
           ELSE IF c.rc # Z_OK THEN Fail(run, "RuntimeError")
           ELSE IF oom = "dict" THEN Fail(run, "MemoryError")
           ELSE IF oom \in {"data_value", "algorithm_value", "checksum_value"}
           \* PyDict_SetItemString(ret, key, NULL) dereferences NULL
           THEN [run EXCEPT !.status = "crash", !.ret_null = TRUE]
           ELSE [run EXCEPT !.ret_dict = ChunkDict(c.output, oom),
                   !.exc = IF oom \in {"data_insert", "algorithm_insert",
                                        "checksum_insert"}
                           THEN "MemoryError" ELSE "none"]
      /\ UNCHANGED <<chunk_size, compression_level, zstream_initialized,
                     zstream_state, live_states>>

OomDecompress == {"none", "malloc", "inflateInit", "inflate", "bytes"}

Chunker_decompress(data, from, oom) ==
  LET call == [NoCall EXCEPT !.op = "decompress", !.data = data,
                 !.level = compression_level, !.oom = oom, !.from = from]
      decompressed_size == BytesLen(data) * 4
      d == decompress_data(data, decompressed_size, oom # "inflateInit",
                           oom # "inflate")
      run == [call EXCEPT !.malloc_called = TRUE, !.compress_called = TRUE,
               !.local_init = d.initialized, !.local_end = d.ended]
  IN  /\ clast' =
           IF oom = "malloc"
           THEN [Fail(call, "MemoryError") EXCEPT !.malloc_called = TRUE]
           ELSE IF d.rc # Z_OK THEN Fail(run, "RuntimeError")
           ELSE IF oom = "bytes" THEN Fail(run, "MemoryError")
           ELSE [run EXCEPT !.ret_bytes = d.output]
      /\ UNCHANGED <<chunk_size, compression_level, zstream_initialized,
                     zstream_state, live_states>>

\* deflateEnd(&self->zstream): frees the state zstream.state points to and
\* clears the pointer; Z_STREAM_ERROR when there is none
deflateEnd(state) == IF state = "live" THEN Z_OK ELSE Z_STREAM_ERROR

\* what a call that may end the stream records: whether it called
\* deflateEnd and what that returned, the flag it found, the call before it
EndRecord(op, ends) ==
  [NoCall EXCEPT !.op = op, !.level = compression_level,
     !.deflateEnd_called = ends,
     !.deflateEnd_rc = IF ends THEN deflateEnd(zstream_state) ELSE Z_OK,
     !.was_initialized = zstream_initialized,
     !.prev = [op |-> clast.op, deflateEnd_called |-> clast.deflateEnd_called]]

\* the stream after the guarded deflateEnd of cleanup and tp_dealloc
EndStream ==
  IF zstream_initialized # 0
  THEN /\ zstream_state' = "null"
       /\ live_states' = IF deflateEnd(zstream_state) = Z_OK
                         THEN live_states - 1 ELSE live_states
  ELSE UNCHANGED <<zstream_state, live_states>>

\* a cleanup that ends the stream but leaves zstream_initialized set
Chunker_cleanup_KeepsFlag ==
  /\ EndStream
  /\ clast' = EndRecord("cleanup", zstream_initialized # 0)
  /\ UNCHANGED <<chunk_size, compression_level, zstream_initialized>>

Chunker_cleanup ==
  /\ zstream_initialized' = IF zstream_initialized # 0 THEN 0
                            ELSE zstream_initialized
  /\ EndStream
  /\ clast' = EndRecord("cleanup", zstream_initialized # 0)
  /\ UNCHANGED <<chunk_size, compression_level>>

\* tp_dealloc: the last reference is dropped; no call follows it
Chunker_dealloc ==
  /\ EndStream
  /\ clast' = EndRecord("dealloc", zstream_initialized # 0)
  /\ UNCHANGED <<chunk_size, compression_level, zstream_initialized>>

(***************************************************************************)
(* chunker.c: module-level functions                                       *)
(***************************************************************************)
OomCompress == {"none", "malloc", "deflateInit", "bytes"}

chunker_compress_data(data, level_arg, oom) ==
  LET lv == IF level_arg.given THEN level_arg.v
            ELSE DEFAULT_COMPRESSION_LEVEL
      call == [NoCall EXCEPT !.op = "compress_data", !.data = data,
                 !.level_arg = level_arg, !.level = lv, !.oom = oom]
      compressed_size == BytesLen(data) * 2
      c == compress_data(data, compressed_size, lv, oom # "deflateInit")
      run == [call EXCEPT !.malloc_called = TRUE, !.compress_called = TRUE,
               !.local_init = c.initialized, !.local_end = c.ended]
  IN  /\ clast' =
           IF oom = "malloc"
           THEN [Fail(call, "MemoryError") EXCEPT !.malloc_called = TRUE]
           ELSE IF c.rc # Z_OK THEN Fail(run, "RuntimeError")
           ELSE IF oom = "bytes" THEN Fail(run, "MemoryError")
           ELSE [run EXCEPT !.ret_bytes = c.output]
      /\ UNCHANGED <<chunk_size, compression_level, zstream_initialized,
                     zstream_state, live_states>>

chunker_decompress_data(data, from, oom) ==
  LET call == [NoCall EXCEPT !.op = "decompress_data", !.data = data,
                 !.oom = oom, !.from = from]
      decompressed_size == BytesLen(data) * 4
      d == decompress_data(data, decompressed_size, oom # "inflateInit",
                           oom # "inflate")
      run == [call EXCEPT !.malloc_called = TRUE, !.compress_called = TRUE,
               !.local_init = d.initialized, !.local_end = d.ended]
  IN  /\ clast' =
           IF oom = "malloc"
           THEN [Fail(call, "MemoryError") EXCEPT !.malloc_called = TRUE]
           ELSE IF d.rc # Z_OK THEN Fail(run, "RuntimeError")
           ELSE IF oom = "bytes" THEN Fail(run, "MemoryError")
           ELSE [run EXCEPT !.ret_bytes = d.output]
      /\ UNCHANGED <<chunk_size, compression_level, zstream_initialized,
                     zstream_state, live_states>>

(***************************************************************************)
(* libsodium, symbolically: a secretbox ciphertext is the term             *)
(* [key, nonce, pt, delta] (pt XOR keystream(key, nonce), delta # 0 when   *)
(* bits of it were flipped afterwards); a MAC is the term over the         *)
(* ciphertext, nonce and key it was computed from.                         *)
(***************************************************************************)
crypto_secretbox_KEYBYTES == 32
crypto_secretbox_NONCEBYTES == 24
crypto_secretbox_MACBYTES == 16
crypto_sign_BYTES == 64
MAX_DATA_SIZE == 1024 * 1024 * 1024

Key(id, len) == [id |-> id, len |-> len]
NoKey == Key(0, 0)

Keys == {Key(i, crypto_secretbox_KEYBYTES) : i \in 1..NumKeys}
          \cup {Key(1, 16)}

Nonces == 1..NumNonces

Plaintexts ==
  {Run(n) : n \in 0..MaxPlain} \cup {AscSeq(n) : n \in 2..MaxPlain}
    \cup {Run(MAX_DATA_SIZE), Run(MAX_DATA_SIZE + 1)}

\* associated data: absent (NULL buffer), or given
AssociatedData == {NoBytes, Run(1)}

StreamXor(pt, nonce, key) ==
  [key |-> key.id, nonce |-> nonce, pt |-> pt, delta |-> 0]

Poly1305(ct, nonce, key) ==
  [ct |-> ct, nonce |-> nonce, key |-> key.id, flip |-> 0]

\* crypto_secretbox_easy: MAC followed by the ciphertext
crypto_secretbox_easy(m, nonce, key) ==
  LET ct == StreamXor(m, nonce, key)
  IN  [rc |-> 0, mac |-> Poly1305(ct, nonce, key), ct |-> ct]

\* what XOR with keystream(key, nonce) makes of ciphertext ct
StreamXorOpen(ct, nonce, key) ==
  IF ct.key = key.id /\ ct.nonce = nonce
  THEN (IF ct.delta = 0 THEN ct.pt
        ELSE [kind |-> "altered", n |-> ct.pt.n])
  ELSE [kind |-> "garbage", n |-> ct.pt.n]

\* crypto_secretbox_open_easy: verify the MAC, then decrypt
crypto_secretbox_open_easy(mac, ct, nonce, key) ==
  IF mac = Poly1305(ct, nonce, key)
  THEN [rc |-> 0, m |-> StreamXorOpen(ct, nonce, key)]
  ELSE [rc |-> 0 - 1, m |-> NoBytes]

Envelope(nonce, mac, ct, len) ==
  [kind |-> "envelope", nonce |-> nonce, mac |-> mac, ct |-> ct,
   len |-> len, cut |-> 0]

(***************************************************************************)
(* crypto.c                                                                *)
(***************************************************************************)
\* additional_data and algorithm are parameters the function never reads
encrypt_data(data, key, additional_data, algorithm, nonce, malloc_ok) ==
  LET total_size == crypto_secretbox_NONCEBYTES + crypto_secretbox_MACBYTES
                      + BytesLen(data)
      box == crypto_secretbox_easy(data, nonce, key)
  IN  IF ~malloc_ok
      THEN [rc |-> 0 - 1, encrypted_null |-> TRUE, encrypted |-> NoBytes,
            encrypted_size |-> 0]
      ELSE IF box.rc = 0
      THEN [rc |-> 0, encrypted_null |-> FALSE,
            encrypted |-> Envelope(nonce, box.mac, box.ct, total_size),
            encrypted_size |-> total_size]
      ELSE [rc |-> 0 - 1, encrypted_null |-> TRUE, encrypted |-> NoBytes,
            encrypted_size |-> 0]

\* a decrypted length that forgets the MAC bytes
DecryptedLenWithMac(ciphertext_len) == ciphertext_len

\* the size of the plaintext of a ciphertext of ciphertext_len bytes
DecryptedLen(ciphertext_len) == ciphertext_len - crypto_secretbox_MACBYTES

\* an open that hands out the decryption whatever the MAC check said
OpenUnchecked(open, ct, nonce, key, decrypted_len) ==
  [rc |-> 0, decrypted_null |-> FALSE,
   decrypted |-> StreamXorOpen(ct, nonce, key),
   decrypted_size |-> decrypted_len]

\* the result of decrypt_data after crypto_secretbox_open_easy returned open
OpenResult(open, ct, nonce, key, decrypted_len) ==
  IF open.rc = 0
  THEN [rc |-> 0, decrypted_null |-> FALSE, decrypted |-> open.m,
        decrypted_size |-> decrypted_len]
  ELSE [rc |-> 0 - 1, decrypted_null |-> TRUE, decrypted |-> NoBytes,
        decrypted_size |-> 0]

decrypt_data(encrypted_data, key, algorithm, malloc_ok) ==
  LET len == BytesLen(encrypted_data)
      ciphertext_len == len - crypto_secretbox_NONCEBYTES
      decrypted_len == DecryptedLen(ciphertext_len)
      failed == [rc |-> 0 - 1, decrypted_null |-> TRUE,
                 decrypted |-> NoBytes, decrypted_size |-> 0]
  IN  IF len < crypto_secretbox_NONCEBYTES + crypto_secretbox_MACBYTES
      THEN failed
      ELSE IF ~malloc_ok THEN failed
      ELSE IF encrypted_data.kind = "envelope" /\ encrypted_data.cut = 0
      THEN OpenResult(crypto_secretbox_open_easy(encrypted_data.mac,
                        encrypted_data.ct, encrypted_data.nonce, key),
                      encrypted_data.ct, encrypted_data.nonce, key,
                      decrypted_len)
      \* bytes that are no sealed box never pass the MAC check
      ELSE failed

(***************************************************************************)
(* encryptor.c: the Encryptor object                                       *)
(***************************************************************************)
VARIABLES algorithm, algorithm_type, initialized, sealed, elast

evars == <<algorithm, algorithm_type, initialized, sealed, elast>>

vars == <<chunk_size, compression_level, zstream_initialized, clast,
          zstream_state, live_states,
          algorithm, algorithm_type, initialized, sealed, elast>>

CRYPTO_XCHACHA20_POLY1305 == 0
CRYPTO_CHACHA20_POLY1305 == 1
CRYPTO_AES256_GCM == 2
CRYPTO_SALSA20_POLY1305 == 3

SupportedAlgorithms ==
  {"xchacha20-poly1305", "chacha20-poly1305", "aes256-gcm",
   "salsa20-poly1305"}

AlgorithmArgs == SupportedAlgorithms \cup {"rot13"}

\* the last envelope encrypt returned, with what it was sealed from
NoSeal ==
  [env |-> NoBytes, p |-> NoBytes, key |-> NoKey, ad |-> NoBytes,
   alg |-> 0 - 1, nonce |-> 0]

NoECall ==
  [op |-> "new", data |-> NoBytes, key |-> NoKey, ad |-> NoBytes,
   input |-> NoBytes, tamper |-> "none", oom |-> "none", alg |-> 0 - 1,
   status |-> "ok", exc |-> "none", ret_null |-> FALSE,
   ret_bytes |-> NoBytes, ret_key |-> NoKey, ret_bool |-> FALSE,
   from |-> NoSeal, alg_arg |-> [given |-> FALSE, v |-> ""], keypair |-> 0,
   ret_size |-> 0, decrypted_null |-> TRUE]

\* Encryptor_new
EncryptorInit ==
  /\ algorithm = "xchacha20-poly1305"
  /\ algorithm_type = CRYPTO_XCHACHA20_POLY1305
  /\ initialized = 0
  /\ sealed = NoSeal
  /\ elast = NoECall

AlgorithmType(name) ==
  IF name = "xchacha20-poly1305" THEN CRYPTO_XCHACHA20_POLY1305
  ELSE IF name = "chacha20-poly1305" THEN CRYPTO_CHACHA20_POLY1305
  ELSE IF name = "aes256-gcm" THEN CRYPTO_AES256_GCM
  ELSE IF name = "salsa20-poly1305" THEN CRYPTO_SALSA20_POLY1305
  ELSE 0 - 1

\* alg_arg: NoArg or Arg(name); sodium_ok: sodium_init() >= 0
Encryptor_init(alg_arg, sodium_ok) ==
  LET call == [NoECall EXCEPT !.op = "init", !.alg_arg = alg_arg,
                 !.oom = IF sodium_ok THEN "none" ELSE "sodium_init"]
      known == alg_arg.given => AlgorithmType(alg_arg.v) >= 0
  IN  /\ algorithm' = IF alg_arg.given THEN alg_arg.v ELSE algorithm
      /\ algorithm_type' = IF alg_arg.given /\ known
                           THEN AlgorithmType(alg_arg.v) ELSE algorithm_type
      /\ initialized' = IF known /\ sodium_ok THEN 1 ELSE initialized
      /\ elast' = IF ~known THEN Fail(call, "ValueError")
                  ELSE IF ~sodium_ok THEN Fail(call, "RuntimeError")
                  ELSE [call EXCEPT !.alg = algorithm_type']
      /\ UNCHANGED sealed

\* the initialized check precedes PyArg_ParseTuple: no argument is read
NotInitialized(call) ==
  Fail([NoECall EXCEPT !.op = call.op, !.alg = call.alg], "RuntimeError")

OomGenerateKey == {"none", "bytes"}

\* rand: the key randombytes_buf drew; oom "bytes": PyBytes_FromStringAndSize
\* cannot allocate the result
Encryptor_generate_key(rand, oom) ==
  LET call == [NoECall EXCEPT !.op = "generate_key", !.alg = algorithm_type]
  IN  /\ elast' = IF initialized = 0 THEN NotInitialized(call)
                  ELSE IF oom = "bytes"
                  THEN Fail([call EXCEPT !.oom = oom], "MemoryError")
                  ELSE [call EXCEPT
                          !.ret_key = Key(rand, crypto_secretbox_KEYBYTES)]
      /\ UNCHANGED <<algorithm, algorithm_type, initialized, sealed>>

OomEncrypt == {"none", "malloc", "bytes"}

Encryptor_encrypt(data, key, additional_data, nonce, oom) ==
  LET call == [NoECall EXCEPT !.op = "encrypt", !.data = data, !.key = key,
                 !.ad = additional_data, !.alg = algorithm_type]
      e == encrypt_data(data, key, additional_data, algorithm_type, nonce,
                        oom # "malloc")
      ok == /\ initialized # 0
            /\ BytesLen(data) <= MAX_DATA_SIZE
            /\ key.len = crypto_secretbox_KEYBYTES
            /\ e.rc = 0 /\ ~e.encrypted_null
            /\ oom # "bytes"
  IN  /\ elast' =
           IF initialized = 0 THEN NotInitialized(call)
           ELSE IF BytesLen(data) > MAX_DATA_SIZE THEN Fail(call, "ValueError")
           ELSE IF key.len # crypto_secretbox_KEYBYTES
           THEN Fail(call, "ValueError")
           ELSE IF ~(e.rc = 0 /\ ~e.encrypted_null)
           THEN Fail([call EXCEPT !.oom = oom], "RuntimeError")
           ELSE IF oom = "bytes"
           THEN Fail([call EXCEPT !.oom = oom], "MemoryError")
           ELSE [call EXCEPT !.ret_bytes = e.encrypted,
                   !.ret_size = e.encrypted_size]
      /\ sealed' = IF ok
                   THEN [env |-> e.encrypted, p |-> data, key |-> key,
                         ad |-> additional_data, alg |-> algorithm_type,
                         nonce |-> nonce]
                   ELSE sealed
      /\ UNCHANGED <<algorithm, algorithm_type, initialized>>

\* what a holder of the envelope can do to it before it is opened
TamperKinds == {"none", "nonce", "mac", "ct", "cut"}

Tamper(env, t) ==
  IF t = "nonce" THEN [env EXCEPT !.nonce = @ + NumNonces]
  ELSE IF t = "mac" THEN [env EXCEPT !.mac.flip = 1]
  ELSE IF t = "ct" THEN [env EXCEPT !.ct.delta = 1]
  ELSE IF t = "cut" THEN [env EXCEPT !.cut = 1, !.len = @ - 1]
  ELSE env

OomDecrypt == {"none", "malloc", "bytes"}

\* from: the seal the input was made of (NoSeal for foreign bytes)
Encryptor_decrypt(encrypted_data, key, from, tamper, oom) ==
  LET call == [NoECall EXCEPT !.op = "decrypt", !.input = encrypted_data,
                 !.key = key, !.from = from, !.tamper = tamper,
                 !.alg = algorithm_type]
      d == decrypt_data(encrypted_data, key, algorithm_type, oom # "malloc")
  IN  /\ elast' =
           IF initialized = 0 THEN NotInitialized(call)
           ELSE IF key.len # crypto_secretbox_KEYBYTES
           THEN Fail(call, "ValueError")
           ELSE IF ~(d.rc = 0 /\ ~d.decrypted_null)
           THEN Fail([call EXCEPT !.oom = IF oom = "malloc" THEN oom
                                          ELSE "none"], "RuntimeError")
           ELSE IF oom = "bytes"
           THEN Fail([call EXCEPT !.oom = oom], "MemoryError")
           ELSE [call EXCEPT !.ret_bytes = d.decrypted,
                   !.ret_size = d.decrypted_size,
                   !.decrypted_null = d.decrypted_null]
      /\ UNCHANGED <<algorithm, algorithm_type, initialized, sealed>>

(***************************************************************************)
(* libsodium signatures, symbolically: a signature is the term [sk, m];    *)
(* key pair i has signing key i and verify key i; verify key 0 is NULL.    *)
(***************************************************************************)
KeyPairs == 1..NumKeyPairs

\* crypto_sign: signature followed by the message
crypto_sign(m, sk) ==
  [kind |-> "signed", sig |-> [sk |-> sk, m |-> m], m |-> m,
   len |-> crypto_sign_BYTES + BytesLen(m)]

\* outcomes of reading through a NULL or out-of-bounds pointer
UBOutcomes == {"crash", "reject"}

\* crypto_sign_verify_detached(sig, m, mlen, pk): "ok", "reject" or "crash".
\* Bytes that are not a signature have a non-canonical S and are rejected
\* before pk is read; a canonical signature makes the function read pk.
crypto_sign_verify_detached(signature, m, pk, ub) ==
  IF BytesLen(signature) < crypto_sign_BYTES THEN ub
  ELSE IF signature.kind # "signed" THEN "reject"
  ELSE IF pk = 0 THEN ub
  ELSE IF signature.sig.sk = pk /\ signature.sig.m = m THEN "ok"
  ELSE "reject"

OomSign == {"none", "malloc", "bytes"}

\* keypair: the pair crypto_sign_keypair generates inside the call
Encryptor_sign(data, keypair, oom) ==
  LET call == [NoECall EXCEPT !.op = "sign", !.data = data,
                 !.keypair = keypair, !.alg = algorithm_type]
  IN  /\ elast' =
           IF initialized = 0 THEN NotInitialized(call)
           ELSE IF oom = "malloc"
           THEN Fail([call EXCEPT !.oom = oom], "MemoryError")
           ELSE IF oom = "bytes"
           THEN Fail([call EXCEPT !.oom = oom], "MemoryError")
           ELSE [call EXCEPT !.ret_bytes = crypto_sign(data, keypair),
                   !.ret_size = BytesLen(crypto_sign(data, keypair))]
      /\ UNCHANGED <<algorithm, algorithm_type, initialized, sealed>>

\* the public key argument of the call is the literal NULL
Encryptor_verify(data, signature, ub) ==
  LET call == [NoECall EXCEPT !.op = "verify", !.data = data,
                 !.input = signature, !.alg = algorithm_type]
      result == crypto_sign_verify_detached(signature, data, 0, ub)
  IN  /\ elast' =
           IF initialized = 0 THEN NotInitialized(call)
           ELSE IF result = "crash"
           THEN [call EXCEPT !.status = "crash", !.ret_null = TRUE]
           ELSE [call EXCEPT !.ret_bool = (result = "ok")]
      /\ UNCHANGED <<algorithm, algorithm_type, initialized, sealed>>

\* a cleanup that leaves the initialized flag as it was
Encryptor_cleanup_NoReset ==
  /\ initialized' = initialized
  /\ elast' = [NoECall EXCEPT !.op = "cleanup", !.alg = algorithm_type]
  /\ UNCHANGED <<algorithm, algorithm_type, sealed>>

Encryptor_cleanup ==
  /\ initialized' = 0
  /\ elast' = [NoECall EXCEPT !.op = "cleanup", !.alg = algorithm_type]
  /\ UNCHANGED <<algorithm, algorithm_type, sealed>>

(***************************************************************************)
(* The callers: every call with every argument of the bounded sets         *)
(***************************************************************************)
SizeArgs ==
  {NoSizeArg, Arg(PyInt(0, 0)), Arg(PyInt(0, MAX_CHUNK_SIZE)),
   Arg(PyInt(0, MAX_CHUNK_SIZE + 1)), Arg(PyInt(0, 0 - 1)),
   Arg(PyInt(1, DEFAULT_CHUNK_SIZE))}

LevelArgs == {NoArg} \cup {Arg(l) : l \in {0 - 1, 0, 9, 10}}

\* bytes a caller can hand to decompress that no call of this model made
ForeignBytes ==
  {Run(0), Run(1), Run(2)}
    \cup {ZStream(p, 6, DeflateLen(p, 6)) : p \in SmallPayloads}
    \cup {ZStream(Run(260), 6, DeflateLen(Run(260), 6))}

\* the bytes the last call returned, if it returned any
ReturnedBytes ==
  (IF clast.op = "chunk" /\ ~clast.ret_null /\ "data" \in clast.ret_dict.keys
   THEN {clast.ret_dict.data} ELSE {})
    \cup (IF clast.op = "compress_data" /\ ~clast.ret_null
          THEN {clast.ret_bytes} ELSE {})

InitCall ==
  /\ live_states < MaxLive
  /\ \E s \in SizeArgs, l \in LevelArgs, f \in ZlibFaults :
       Chunker_init(s, l, f)

ChunkCall == \E p \in Payloads, o \in OomChunk : Chunker_chunk(p, o)

DecompressCall ==
  \/ \E d \in ReturnedBytes, o \in OomDecompress :
       Chunker_decompress(d, clast.op, o)
  \/ \E d \in ForeignBytes, o \in OomDecompress :
       Chunker_decompress(d, "none", o)

CleanupCall == Chunker_cleanup

DeallocCall == Chunker_dealloc

CompressDataCall ==
  \E p \in SmallPayloads, l \in LevelArgs, o \in OomCompress :
    chunker_compress_data(p, l, o)

DecompressDataCall ==
  \/ \E d \in ReturnedBytes, o \in OomDecompress :
       chunker_decompress_data(d, clast.op, o)
  \/ \E d \in ForeignBytes, o \in OomDecompress :
       chunker_decompress_data(d, "none", o)

NextChunker ==
  /\ \/ InitCall
     \/ ChunkCall
     \/ DecompressCall
     \/ CleanupCall
  /\ UNCHANGED evars

NextModule ==
  /\ \/ CompressDataCall
     \/ DecompressDataCall
  /\ UNCHANGED evars

Init == ChunkerInit /\ EncryptorInit

SpecChunker == Init /\ [][NextChunker]_vars

SpecModule == Init /\ [][NextModule]_vars

AlgArgs == {[given |-> FALSE, v |-> ""]} \cup {Arg(a) : a \in AlgorithmArgs}

\* bytes a caller can hand to decrypt that are no envelope
ForeignEnvelopes ==
  {Run(0),
   Run(crypto_secretbox_NONCEBYTES + crypto_secretbox_MACBYTES)}

\* the tamperings that change at least one bit of the envelope
Tamperings(seal) ==
  IF seal.p.n = 0 THEN TamperKinds \ {"ct"} ELSE TamperKinds

EInitCall ==
  \E a \in AlgArgs, failing \in BOOLEAN : Encryptor_init(a, ~failing)

GenerateKeyCall ==
  \E r \in 1..NumKeys, o \in OomGenerateKey : Encryptor_generate_key(r, o)

EncryptCall ==
  \E p \in Plaintexts, k \in Keys, ad \in AssociatedData, n \in Nonces,
     o \in OomEncrypt : Encryptor_encrypt(p, k, ad, n, o)

DecryptCall ==
  \/ /\ sealed # NoSeal
     /\ \E t \in Tamperings(sealed), k \in Keys, o \in OomDecrypt :
          Encryptor_decrypt(Tamper(sealed.env, t), k, sealed, t, o)
  \/ \E e \in ForeignEnvelopes, k \in Keys, o \in OomDecrypt :
       Encryptor_decrypt(e, k, NoSeal, "none", o)

Messages == {Run(n) : n \in 0..MaxPlain}

ForeignSignatures == {Run(0), Run(crypto_sign_BYTES)}

SignCall ==
  \E m \in Messages, kp \in KeyPairs, o \in OomSign : Encryptor_sign(m, kp, o)

VerifyCall ==
  \/ /\ elast.op = "sign" /\ ~elast.ret_null
     /\ \E m \in Messages, ub \in UBOutcomes :
          Encryptor_verify(m, elast.ret_bytes, ub)
  \/ \E m \in Messages, sg \in ForeignSignatures, ub \in UBOutcomes :
       Encryptor_verify(m, sg, ub)

ECleanupCall == Encryptor_cleanup

NextEncryptor ==
  /\ \/ EInitCall
     \/ GenerateKeyCall
     \/ EncryptCall
     \/ DecryptCall
     \/ ECleanupCall
  /\ UNCHANGED cvars

NextSigner ==
  /\ \/ EInitCall
     \/ SignCall
     \/ VerifyCall
     \/ ECleanupCall
  /\ UNCHANGED cvars

SpecEncryptor == Init /\ [][NextEncryptor]_vars

SpecSigner == Init /\ [][NextSigner]_vars

\* every method of the Encryptor type
NextEncryptorAll ==
  /\ \/ EInitCall
     \/ GenerateKeyCall
     \/ EncryptCall
     \/ DecryptCall
     \/ SignCall
     \/ VerifyCall
     \/ ECleanupCall
  /\ UNCHANGED cvars

SpecEncryptorAll == Init /\ [][NextEncryptorAll]_vars

\* construction, re-initialization, cleanup and disposal of both objects;
\* nothing is called on a Chunker after its tp_dealloc
NextLifecycle ==
  \/ /\ clast.op # "dealloc"
     /\ \/ InitCall
        \/ CleanupCall
        \/ DeallocCall
     /\ UNCHANGED evars
  \/ /\ \/ EInitCall
        \/ ECleanupCall
     /\ UNCHANGED cvars

SpecLifecycle == Init /\ [][NextLifecycle]_vars

(***************************************************************************)
(* Properties                                                              *)
(***************************************************************************)
AllKeys == {"data", "algorithm", "checksum"}

\* C1: compression round trip.  For every payload of at most MAX_CHUNK_SIZE
\* bytes (the empty one included) chunk succeeds on a Chunker with a valid
\* level when no allocation fails, and decompress of the 'data' it returned
\* succeeds and returns exactly the payload.
C1_CompressionRoundTrip ==
  /\ (/\ clast.op = "chunk"
      /\ BytesLen(clast.data) <= MAX_CHUNK_SIZE
      /\ LevelValid(clast.level)
      /\ clast.oom = "none")
     => (clast.status = "ok" /\ ~clast.ret_null
         /\ "data" \in clast.ret_dict.keys)
  /\ (/\ clast.op = "decompress"
      /\ clast.from = "chunk"
      /\ clast.oom = "none")
     => (clast.status = "ok" /\ ~clast.ret_null
         /\ clast.ret_bytes = clast.data.src)

\* C2: encryption round trip.  decrypt_data with key k on the untouched
\* envelope encrypt_data made of p with k succeeds (no allocation failing)
\* and returns bytes equal to p, decrypted_size equal to len(p).
C2_EncryptionRoundTrip ==
  (/\ elast.op = "decrypt"
   /\ elast.from # NoSeal
   /\ elast.tamper = "none"
   /\ elast.key = elast.from.key
   /\ elast.oom = "none")
  => (/\ elast.status = "ok"
      /\ ~elast.ret_null
      /\ ~elast.decrypted_null
      /\ elast.ret_bytes = elast.from.p
      /\ elast.ret_size = BytesLen(elast.from.p))

C2_Witness ==
  /\ elast.op = "decrypt"
  /\ elast.from # NoSeal
  /\ elast.tamper = "none"
  /\ elast.key = elast.from.key
  /\ elast.oom = "none"
  /\ elast.status = "ok"
  /\ elast.ret_bytes = Run(1)

\* C3: tamper and wrong-key detection.  An envelope sealed under k1 and
\* opened with another key, or with a bit of its nonce, MAC or ciphertext
\* changed, makes decrypt fail: the output pointer is NULL and no bytes are
\* returned.
C3_TamperDetected ==
  (/\ elast.op = "decrypt"
   /\ elast.from # NoSeal
   /\ \/ elast.key # elast.from.key
      \/ elast.tamper \in {"nonce", "mac", "ct"})
  => (/\ elast.status = "error"
      /\ elast.ret_null
      /\ elast.decrypted_null
      /\ elast.ret_bytes = NoBytes)

C3_Witness ==
  /\ elast.op = "decrypt"
  /\ elast.from # NoSeal
  /\ elast.tamper = "ct"
  /\ elast.key = elast.from.key
  /\ elast.oom = "none"
  /\ elast.status = "error"
  /\ elast.ret_null

\* C4: associated-data binding.  An envelope sealed with associated data
\* opens only when the same associated data is supplied at decrypt time;
\* decrypt supplies none (elast.ad is the absent value for a decrypt call).
C4_AssociatedDataBound ==
  (/\ elast.op = "decrypt"
   /\ elast.from # NoSeal
   /\ elast.status = "ok"
   /\ ~elast.ret_null)
  => elast.ad = elast.from.ad

\* C5: signature correctness.  verify(m, sign(m)) returns true.
C5_SignatureAccepted ==
  (/\ elast.op = "verify"
   /\ elast.input.kind = "signed"
   /\ elast.input.m = elast.data)
  => (elast.status = "ok" /\ elast.ret_bool)

\* C6: size ceiling.  chunk rejects every payload longer than MAX_CHUNK_SIZE
\* with ValueError before any allocation or compression; a payload of
\* exactly MAX_CHUNK_SIZE bytes passes the size check and, on a Chunker with
\* a valid level and no allocation failing, is encoded completely.
C6_SizeCeiling ==
  clast.op = "chunk" =>
    /\ BytesLen(clast.data) > MAX_CHUNK_SIZE
       => (/\ clast.status = "error" /\ clast.exc = "ValueError"
           /\ clast.ret_null
           /\ ~clast.malloc_called /\ ~clast.compress_called)
    /\ BytesLen(clast.data) = MAX_CHUNK_SIZE
       => (/\ clast.exc # "ValueError"
           /\ clast.malloc_called
           /\ (LevelValid(clast.level) /\ clast.oom = "none")
              => (/\ clast.status = "ok" /\ ~clast.ret_null
                  /\ clast.ret_dict.keys = AllKeys
                  /\ clast.ret_dict.data.src = clast.data
                  /\ clast.ret_dict.data.len
                       = DeflateLen(clast.data, clast.level)))

C6_Witness ==
  /\ clast.op = "chunk"
  /\ BytesLen(clast.data) = MAX_CHUNK_SIZE
  /\ clast.oom = "none"
  /\ clast.status = "ok"
  /\ clast.ret_dict.keys = AllKeys

\* C7: all-or-nothing encode.  chunk returns either an error and no record,
\* or a record holding all of 'data', 'algorithm' and 'checksum'.
C7_AllOrNothing ==
  clast.op = "chunk" =>
    \/ clast.ret_null /\ clast.status # "ok"
    \/ /\ ~clast.ret_null /\ clast.status = "ok" /\ clast.exc = "none"
       /\ clast.ret_dict.keys = AllKeys

\* C8: algorithm agility.  An envelope is opened only by an Encryptor
\* configured with the algorithm of the Encryptor that sealed it.
C8_AlgorithmAgility ==
  (/\ elast.op = "decrypt"
   /\ elast.from # NoSeal
   /\ elast.status = "ok"
   /\ ~elast.ret_null)
  => elast.alg = elast.from.alg

\* C9: Chunker construction validates its parameters.  init succeeds only
\* if the chunk_size passed is in 1..MAX_CHUNK_SIZE and the level passed is
\* in 0..9 (an argument left out stands for the stored value), and every
\* other combination fails with ValueError without deflateInit being called.
C9_ArgsValid ==
  /\ IF clast.size_arg.given
     THEN PyIntInRange(clast.size_arg.v, MAX_CHUNK_SIZE)
     ELSE ChunkSizeValid(chunk_size)
  /\ IF clast.level_arg.given
     THEN clast.level_arg.v >= 0 /\ clast.level_arg.v <= 9
     ELSE LevelValid(compression_level)

C9_InitValidates ==
  clast.op = "init" =>
    /\ clast.status = "ok" => C9_ArgsValid
    /\ ~C9_ArgsValid
       => (/\ clast.status = "error" /\ clast.exc = "ValueError"
           /\ ~clast.deflateInit_called)

\* C10: compression level range.  The module-level compress_data called
\* with a level outside 0..9 fails and returns no compressed output.
C10_LevelRange ==
  (clast.op = "compress_data" /\ ~LevelValid(clast.level))
  => (clast.status = "error" /\ clast.ret_null /\ clast.ret_bytes = NoBytes)

\* C11: an Encryptor init given an algorithm name outside the supported set
\* fails with ValueError, and every encrypt or decrypt call that runs finds
\* a supported name in the object's algorithm field.
C11_UnsupportedRejected ==
  /\ (elast.op = "init" /\ elast.alg_arg.given
        /\ elast.alg_arg.v \notin SupportedAlgorithms)
       => (elast.status = "error" /\ elast.exc = "ValueError")
  /\ (elast.op \in {"encrypt", "decrypt"} /\ elast.status = "ok")
       => algorithm \in SupportedAlgorithms

\* C12: cleanup is idempotent.  Over init, cleanup and tp_dealloc of a
\* Chunker, cleanup and tp_dealloc call deflateEnd on the object's stream
\* only when zstream_initialized is set, the flag is set by a successful
\* init only and cleared by cleanup (so at most one such call per successful
\* deflateInit), a deflateEnd that ends a stream ends the live one and frees
\* it once, and a cleanup or tp_dealloc that follows a cleanup calls no
\* deflateEnd and changes no field.  A repeated Encryptor cleanup leaves
\* algorithm, algorithm_type and initialized as the first left them.
C12_Step ==
  /\ clast'.deflateEnd_called => clast'.was_initialized # 0
  /\ (zstream_initialized = 0 /\ zstream_initialized' # 0)
       => (clast'.op = "init" /\ clast'.status = "ok")
  /\ clast'.op = "cleanup" => zstream_initialized' = 0
  /\ (clast' # clast /\ clast'.deflateEnd_called
        /\ clast'.deflateEnd_rc = Z_OK)
       => /\ zstream_state = "live" /\ zstream_state' = "null"
          /\ live_states' = live_states - 1
  /\ live_states' >= 0
  /\ (clast.op = "cleanup" /\ clast'.op \in {"cleanup", "dealloc"}
        /\ clast'.prev.op = "cleanup")
       => /\ ~clast'.deflateEnd_called
          /\ UNCHANGED <<chunk_size, compression_level, zstream_initialized,
                         zstream_state, live_states>>
  /\ elast'.op = "cleanup" => initialized' = 0
  /\ (elast.op = "cleanup" /\ elast'.op = "cleanup")
       => UNCHANGED <<algorithm, algorithm_type, initialized>>

C12_CleanupIdempotent == [][C12_Step]_vars

\* a second cleanup after the one that ended an initialized stream, and a
\* cleaned-up Encryptor
C12_Witness ==
  /\ clast.op = "cleanup" /\ clast.prev.op = "cleanup"
  /\ clast.prev.deflateEnd_called /\ ~clast.deflateEnd_called
  /\ zstream_initialized = 0 /\ zstream_state = "null" /\ live_states = 0
  /\ elast.op = "cleanup" /\ initialized = 0

\* what a chunk or decompress call whose allocations succeed returns when
\* it runs alone: a function of its argument and the configured level
OutcomeOf(call) == <<call.status, call.exc, call.ret_dict, call.ret_bytes>>

AloneOutcome(op, data, level) ==
  LET c == compress_data(data, BytesLen(data) * 2, level, TRUE)
      d == decompress_data(data, BytesLen(data) * 4, TRUE, TRUE)
  IN  IF op = "chunk"
      THEN IF TooLarge(data)
           THEN <<"error", "ValueError", EmptyDict, NoBytes>>
           ELSE IF c.rc # Z_OK
           THEN <<"error", "RuntimeError", EmptyDict, NoBytes>>
           ELSE <<"ok", "none", ChunkDict(c.output, "none"), NoBytes>>
      ELSE IF d.rc # Z_OK
           THEN <<"error", "RuntimeError", EmptyDict, NoBytes>>
           ELSE <<"ok", "none", EmptyDict, d.output>>

\* C13: per-call compression context.  Every chunk or decompress call, in
\* any order with the other calls on the same Chunker, ends the stream that
\* its compress_data / decompress_data initialized exactly when it
\* initialized one, leaves chunk_size, compression_level and the persistent
\* stream (zstream_initialized, its pending deflateEnd) untouched, and
\* returns what the same call returns alone under the same configuration.
C13_Step ==
  clast'.op \in {"chunk", "decompress"} =>
    /\ UNCHANGED <<chunk_size, compression_level, zstream_initialized,
                   zstream_state, live_states>>
    /\ clast'.local_end = clast'.local_init
    /\ clast'.local_init => clast'.compress_called
    /\ ~clast'.deflateInit_called /\ ~clast'.deflateEnd_called
    /\ clast'.oom = "none" =>
         OutcomeOf(clast') =
           AloneOutcome(clast'.op, clast'.data, compression_level)

C13_PerCallContext == [][C13_Step]_vars

\* a decompress call that ran after a chunk call on an initialized Chunker,
\* both with a stream of their own
C13_Witness ==
  /\ clast.op = "decompress" /\ clast.from = "chunk"
  /\ clast.status = "ok" /\ clast.ret_bytes # NoBytes
  /\ clast.local_init /\ clast.local_end
  /\ zstream_initialized = 1

\* C14: configuration invariant.  In every state reached by init (accepted
\* or rejected), chunk, decompress and cleanup calls the stored chunk_size
\* lies in 1..MAX_CHUNK_SIZE and the stored compression_level in 0..9.
C14_ConfigInvariant ==
  /\ PyIntInRange(chunk_size, MAX_CHUNK_SIZE)
  /\ LevelValid(compression_level)

GatedOps == {"generate_key", "encrypt", "decrypt", "sign", "verify"}

\* C15: lifecycle gate of the Encryptor.  The flag the five operations test
\* is clear on a new object, set by each successful init and by nothing
\* else, and cleared by cleanup; an operation called while it is clear
\* fails with the not-initialized RuntimeError without reading an argument
\* or changing the object, and one called while it is set goes on to its
\* work.
C15_Step ==
  /\ (elast'.op \in GatedOps /\ initialized = 0)
       => /\ elast' = NotInitialized(elast')
          /\ UNCHANGED <<algorithm, algorithm_type, initialized, sealed>>
  /\ (elast'.op \in GatedOps /\ initialized # 0)
       => /\ elast' # NotInitialized(elast')
          /\ initialized' = initialized
  /\ elast'.op = "cleanup" => initialized' = 0
  /\ elast'.op = "init"
       => initialized' = IF elast'.status = "ok" THEN 1 ELSE initialized

C15_LifecycleGate == [][C15_Step]_vars

\* decrypt refused after cleanup, on an object that had been initialized
\* and had sealed an envelope
C15_Witness ==
  /\ elast.op = "decrypt" /\ elast = NotInitialized(elast)
  /\ initialized = 0
  /\ sealed # NoSeal

====
